---- MODULE Spec2Model ----
(***************************************************************************)
(* A model of jsonrpctcp/client.py: the Client call session, the           *)
(* ClientRequest builder, the socket exchange of _send_and_receive and the *)
(* response handling of _parse_response / validate_response.               *)
(*                                                                         *)
(* Python values are tagged records, so that the code's type tests         *)
(* (type(obj) is dict, type(responses) is list), its truth tests           *)
(* (if not response, if self._params) and has_key are decided as Python    *)
(* decides them.  Wire text is a sequence of tokens, one token standing    *)
(* for one byte of the stream: len(), the buffer comparison, truncation    *)
(* and decoding all work on that sequence.                                 *)
(***************************************************************************)
EXTENDS Integers, Sequences, FiniteSets, TLC

\* ------------------------------------------------------------------ bounds
\* Number of ClientRequest objects alive at one time.
MaxReqs == 2
\* config.buffer, the argument of every sock.recv (tokens per read).
Buffer == 6

\* ----------------------------------------------------------- Python values
PyNone == [t |-> "None"]
PyScalar(name) == [t |-> "scalar", v |-> name]
PyStr(segs) == [t |-> "str", segs |-> segs]
PyList(l) == [t |-> "list", l |-> l]
PyDict(d) == [t |-> "dict", d |-> d]
EmptyDict == PyDict([k \in {} |-> PyNone])

\* The scalars that Python treats as false.
FalsyScalars == {"0", "false", "''"}

\* bool(x) as the if statements of the client evaluate it.
Truthy(x) ==
    CASE x.t = "None" -> FALSE
      [] x.t = "scalar" -> x.v \notin FalsyScalars
      [] x.t = "list" -> Len(x.l) > 0
      [] x.t = "dict" -> DOMAIN x.d # {}
      [] x.t = "str" -> Len(x.segs) > 0
      [] OTHER -> TRUE

IsDict(x) == x.t = "dict"
has_key(x, k) == k \in DOMAIN x.d
\* dict.get(k, None)
DictGet(x, k) == IF k \in DOMAIN x.d THEN x.d[k] ELSE PyNone

\* ---------------------------------------------------------------- wire text
LBrace == [tok |-> "{"]
RBrace == [tok |-> "}"]
LBrack == [tok |-> "["]
RBrack == [tok |-> "]"]
Space == [tok |-> " "]
Junk == [tok |-> "?"]
Member(k, v) == [tok |-> "member", key |-> k, val |-> v]
Atom(v) == [tok |-> "atom", val |-> v]

KeyOrder == <<"jsonrpc", "method", "params", "id", "result", "error">>

RECURSIVE Flatten(_)
Flatten(ss) == IF ss = <<>> THEN <<>> ELSE Head(ss) \o Flatten(Tail(ss))

\* json.dumps of one value that is not a top-level array.
DumpsElem(x) ==
    IF x.t = "dict"
    THEN LET keys == SelectSeq(KeyOrder, LAMBDA k : k \in DOMAIN x.d)
         IN  <<LBrace>> \o [i \in 1..Len(keys) |-> Member(keys[i], x.d[keys[i]])]
                        \o <<RBrace>>
    ELSE <<Atom(x)>>

\* json.dumps
dumps(x) ==
    IF x.t = "list"
    THEN <<LBrack>> \o Flatten([i \in 1..Len(x.l) |-> DumpsElem(x.l[i])]) \o <<RBrack>>
    ELSE DumpsElem(x)

\* The index of the token that ends the run of members starting at i.
RECURSIVE MembersEnd(_, _)
MembersEnd(t, i) ==
    IF i > Len(t) THEN i
    ELSE IF t[i].tok = "member" THEN MembersEnd(t, i + 1) ELSE i

\* The object whose members are t[i+1..j-1]; a repeated key keeps its last value.
ObjectOf(t, i, j) ==
    LET idx == (i + 1)..(j - 1)
        keys == {t[x].key : x \in idx}
        last(k) == CHOOSE x \in idx : t[x].key = k /\ \A y \in idx : t[y].key = k => y <= x
    IN  PyDict([k \in keys |-> t[last(k)].val])

\* The elements of an array body t[i..n]: [ok, l].
RECURSIVE ParseElems(_, _, _)
ParseElems(t, i, n) ==
    IF i > n THEN [ok |-> TRUE, l |-> <<>>]
    ELSE IF t[i].tok = "atom"
    THEN LET rest == ParseElems(t, i + 1, n)
         IN  [ok |-> rest.ok, l |-> <<t[i].val>> \o rest.l]
    ELSE IF t[i].tok = "{"
    THEN LET j == MembersEnd(t, i + 1)
         IN  IF j <= n /\ t[j].tok = "}"
             THEN LET rest == ParseElems(t, j + 1, n)
                  IN  [ok |-> rest.ok, l |-> <<ObjectOf(t, i, j)>> \o rest.l]
             ELSE [ok |-> FALSE, l |-> <<>>]
    ELSE [ok |-> FALSE, l |-> <<>>]

\* json.loads: [ok |-> FALSE] stands for ValueError.
loads(text) ==
    LET t == SelectSeq(text, LAMBDA b : b.tok # " ")
        n == Len(t)
        bad == [ok |-> FALSE, val |-> PyNone]
    IN  IF n = 0 THEN bad
        ELSE IF t[1].tok = "[" /\ t[n].tok = "]" /\ n >= 2
        THEN LET e == ParseElems(t, 2, n - 1)
             IN  IF e.ok THEN [ok |-> TRUE, val |-> PyList(e.l)] ELSE bad
        ELSE LET e == ParseElems(t, 1, n)
             IN  IF e.ok /\ Len(e.l) = 1 THEN [ok |-> TRUE, val |-> e.l[1]] ELSE bad

\* ------------------------------------------------------------- exceptions
\* errors.ProtocolError(code, message=None, data=None)
ProtocolError(code, message, data) ==
    [exc |-> "ProtocolError", code |-> code, message |-> message, data |-> data]
Raised(name) == [exc |-> name]
\* The JSON-RPC code reserved for "parse error".
ParseErrorCode == PyScalar("-32700")

\* ------------------------------------------------------------------- state
Sessions == {"conn", "batch"}

VARIABLES
    made,       \* the sessions constructed so far
    requests,   \* Client._requests of each session: its list of ClientRequest objects
    gen,        \* the generator object returned by the last batch trigger
    pc,         \* where the (single) thread of control stands
    frame,      \* the activation of _call_single / _call_batch in progress or last run
    srv,        \* the bytes of the reply that the reads so far have not taken
    io,         \* what the current operation did to sockets so far
    op,         \* the operation the caller invoked last
    outcome     \* how that operation ended: a returned value or a raised exception

vars == <<made, requests, gen, pc, frame, srv, io, op, outcome>>

\* _is_batch reading a flag that is never set.
_is_batchUnset(s) == FALSE

\* _is_batch: Client.__batch is True
_is_batch(s) == s = "batch"

\* The generator: its state, its locals (requests, ids, response_by_id as byId,
\* the place pos in ids), and on record the text it received, the connections
\* it opened and the values it yielded, and the ClientRequest objects that were
\* pending when the session was triggered (once the exchange is over, only
\* which of them were notifications).
NoGen == [state |-> "none", requests |-> <<>>, ids |-> <<>>,
          byId |-> [k \in {} |-> PyNone], pos |-> 0, text |-> <<>>, opened |-> 0,
          yielded |-> <<>>, issued |-> <<>>]
\* The activation: the locals of _call_single / _call_batch and of
\* _send_and_receive (data by its length, last), the state of its socket, and
\* how its read loop ended.
NoFrame == [mode |-> "none", session |-> "conn", request |-> PyNone, ids |-> <<>>,
            message |-> <<>>, notify |-> FALSE, response |-> <<>>, last |-> 0,
            sock |-> "none", end |-> "none"]
NoIo == [opened |-> 0, closed |-> 0, reads |-> 0, writes |-> 0]
\* The operation: its name, the session, the place of the request it was invoked
\* on and whether that request is a notification, whether it was invoked with
\* both positional and named arguments, and the length of the session's list
\* when Client.__call__ was entered.
NoOp == [name |-> "none", session |-> "conn", obj |-> 0, notify |-> FALSE,
         both |-> FALSE, pending |-> 0]
Pending == [kind |-> "pending"]
Returned(v) == [kind |-> "return", val |-> v]
Raise(e) == [kind |-> "raise", exc |-> e]
\* What the caller holds instead of a JSON value.
RequestRef(s, i) == [t |-> "request", s |-> s, i |-> i]
GeneratorRef == [t |-> "generator"]

\* connect(host, port): one non-batch Client with no pending request.
Init ==
    /\ made = {"conn"}
    /\ requests = [s \in Sessions |-> <<>>]
    /\ gen = NoGen
    /\ pc = "idle"
    /\ frame = NoFrame
    /\ srv = <<>>
    /\ io = NoIo
    /\ op = NoOp
    /\ outcome = Returned(PyNone)

\* ----------------------------------------------------------- ClientRequest
\* ClientRequest.__init__
NewRequest(s, ns, notify, req_id) ==
    [client |-> s, namespace |-> ns, notify |-> notify, req_id |-> req_id,
     params |-> PyNone]

\* u'%s' % uuid.uuid4(): an identifier no other request alive carries.  A list
\* only grows until it is emptied, so the list and the place in it name one.
NewId(s) == [t |-> "id", s |-> s, i |-> Len(requests[s]) + 1]

\* _request setting id whether or not the request is a notification.
_requestAlwaysId(r) ==
    LET base == [k \in {"jsonrpc", "method", "id"} |->
                    IF k = "jsonrpc" THEN PyScalar("2.0")
                    ELSE IF k = "method" THEN PyStr(r.namespace) ELSE r.req_id]
    IN  IF Truthy(r.params)
        THEN PyDict([k \in DOMAIN base \cup {"params"} |->
                        IF k = "params" THEN r.params ELSE base[k]])
        ELSE PyDict(base)

\* ClientRequest._request: the request object of the builder r.
_request(r) ==
    LET base == [k \in {"jsonrpc", "method"} |->
                    IF k = "jsonrpc" THEN PyScalar("2.0") ELSE PyStr(r.namespace)]
        withParams == IF Truthy(r.params)
                      THEN [k \in DOMAIN base \cup {"params"} |->
                               IF k = "params" THEN r.params ELSE base[k]]
                      ELSE base
        withId == IF ~r.notify
                  THEN [k \in DOMAIN withParams \cup {"id"} |->
                           IF k = "id" THEN r.req_id ELSE withParams[k]]
                  ELSE withParams
    IN  PyDict(withId)

Contains(seq, e) == \E i \in 1..Len(seq) : seq[i] = e

\* The names a caller may access: remote method names and a reserved name.  A
\* path names each segment at most once.
ClientKeys == {"tree", "_x"}
RequestKeys == {"echo", "_x"}
startswith_(key) == key \in {"_x"}

\* The arguments of one invocation, (args, kwargs): one positional argument,
\* one named argument, or both.
TheValue == PyScalar("'Testing!'")
ArgChoices ==
    { [args |-> <<TheValue>>, kwargs |-> EmptyDict],
      [args |-> <<>>, kwargs |-> PyDict([message |-> TheValue])],
      [args |-> <<TheValue>>, kwargs |-> PyDict([message |-> TheValue])] }

\* The ClientRequest objects alive.
Alive == Len(requests["conn"]) + Len(requests["batch"])

\* The caller is between two operations: the last one is over and the caller
\* has taken its outcome.
Ready == pc = "idle" /\ op = NoOp

\* Every operation the caller starts resets the record of the previous one.  The
\* caller holds a generator only while it consumes it: any other operation lets
\* go of it.
StartOp(name, s, o) ==
    /\ op' = [NoOp EXCEPT !.name = name, !.session = s, !.obj = o]
    /\ io' = NoIo
    /\ frame' = NoFrame
    /\ srv' = <<>>
    /\ gen' = NoGen

\* Client.__getattr__ with _requests one list shared by every Client (a list
\* made once, as a class attribute, and never replaced in __init__).
ClientGetAttrShared(s, key) ==
    /\ Ready /\ s \in made
    /\ StartOp("getattr", s, 0)
    /\ IF startswith_(key)
       THEN /\ outcome' = Raise(Raised("AttributeError"))
            /\ UNCHANGED requests
       ELSE /\ Alive < MaxReqs
            /\ requests' = [requests EXCEPT !["conn"] =
                              Append(@, NewRequest(s, <<key>>, FALSE, NewId("conn")))]
            /\ outcome' = Returned(RequestRef(s, Len(requests["conn"]) + 1))
    /\ UNCHANGED <<made, pc>>

\* Client.__getattr__
ClientGetAttr(s, key) ==
    /\ Ready /\ s \in made
    /\ StartOp("getattr", s, 0)
    /\ IF startswith_(key)
       THEN /\ outcome' = Raise(Raised("AttributeError"))
            /\ UNCHANGED requests
       ELSE /\ Alive < MaxReqs
            /\ requests' = [requests EXCEPT ![s] =
                              Append(@, NewRequest(s, <<key>>, FALSE, NewId(s)))]
            /\ outcome' = Returned(RequestRef(s, Len(requests[s]) + 1))
    /\ UNCHANGED <<made, pc>>

\* Client._notify
_notify(s) ==
    /\ Ready /\ s \in made
    /\ Alive < MaxReqs
    /\ StartOp("_notify", s, 0)
    /\ requests' = [requests EXCEPT ![s] = Append(@, NewRequest(s, <<>>, TRUE, PyNone))]
    /\ outcome' = Returned(RequestRef(s, Len(requests[s]) + 1))
    /\ UNCHANGED <<made, pc>>

\* Client._batch: a new batch session for the same address; the caller lets go
\* of the batch session it held before.
_batch(s) ==
    /\ Ready /\ s \in made
    /\ StartOp("_batch", s, 0)
    /\ made' = made \cup {"batch"}
    /\ requests' = [requests EXCEPT !["batch"] = <<>>]
    /\ outcome' = Returned([t |-> "client"])
    /\ UNCHANGED pc

\* ClientRequest.__getattr__ on the i-th pending request of session s
RequestGetAttr(s, i, key) ==
    /\ Ready /\ i \in 1..Len(requests[s])
    /\ StartOp("request.getattr", s, i)
    /\ IF startswith_(key)
       THEN /\ outcome' = Raise(Raised("AttributeError"))
            /\ UNCHANGED requests
       ELSE /\ ~Contains(requests[s][i].namespace, key)
            /\ requests' = [requests EXCEPT ![s][i].namespace = Append(@, key)]
            /\ outcome' = Returned(RequestRef(s, i))
    /\ UNCHANGED <<made, pc>>

\* ------------------------------------------------------ response handling
\* _parse_response without its first test: empty text goes to json.loads.
_parse_responseNoEmpty(response) ==
    LET r == loads(response)
        obj == r.val
    IN  IF ~r.ok THEN Raise(ProtocolError(ParseErrorCode, PyNone, PyNone))
        ELSE IF IsDict(obj) /\ has_key(obj, "error")
        THEN LET e == DictGet(obj, "error")
             IN  IF ~IsDict(e) THEN Raise(Raised("AttributeError"))
                 ELSE Raise(ProtocolError(DictGet(e, "code"), DictGet(e, "message"),
                                          DictGet(e, "data")))
        ELSE Returned(obj)

\* Client._parse_response: a returned object or a raised exception.
_parse_response(response) ==
    IF response = <<>> THEN Returned(PyNone)
    ELSE LET r == loads(response)
             obj == r.val
         IN  IF ~r.ok THEN Raise(ProtocolError(ParseErrorCode, PyNone, PyNone))
             ELSE IF IsDict(obj) /\ has_key(obj, "error")
             THEN LET e == DictGet(obj, "error")
                  IN  IF ~IsDict(e) THEN Raise(Raised("AttributeError"))
                      ELSE Raise(ProtocolError(DictGet(e, "code"), DictGet(e, "message"),
                                               DictGet(e, "data")))
             ELSE Returned(obj)

InvalidResponse == [exc |-> "Exception", message |-> "Server returned invalid response."]

\* validate_response: the exception it raises, or Returned(None) when it returns.
validate_response(response) ==
    IF ~IsDict(response) THEN Raise(Raised("AttributeError"))
    ELSE LET jsonrpc == has_key(response, "jsonrpc")
             response_id == has_key(response, "id")
             result == has_key(response, "result")
             error == has_key(response, "error")
         IN  IF ~jsonrpc \/ ~response_id \/ (~result /\ ~error)
             THEN Raise(InvalidResponse)
             ELSE IF error
             THEN LET e == response.d["error"]
                  IN  IF ~IsDict(e) THEN Raise(Raised("TypeError"))
                      ELSE IF ~has_key(e, "code") \/ ~has_key(e, "message")
                      THEN Raise(Raised("KeyError"))
                      ELSE Raise(ProtocolError(e.d["code"], e.d["message"], PyNone))
             ELSE Returned(PyNone)

\* _call_single ending in "return response.get('result') or None": a false
\* result is taken for no result.
SingleResultOrNone(response_text) ==
    LET parsed == _parse_response(response_text)
        response == parsed.val
    IN  IF parsed.kind = "raise" THEN parsed
        ELSE IF ~Truthy(response) THEN Returned(response)
        ELSE LET v == validate_response(response)
             IN  IF v.kind = "raise" THEN v
                 ELSE IF Truthy(DictGet(response, "result"))
                 THEN Returned(response.d["result"])
                 ELSE Returned(PyNone)

\* Client._call_single, lines 95-100: what the call makes of the text received.
SingleResult(response_text) ==
    LET parsed == _parse_response(response_text)
        response == parsed.val
    IN  IF parsed.kind = "raise" THEN parsed
        ELSE IF ~Truthy(response) THEN Returned(response)
        ELSE LET v == validate_response(response)
             IN  IF v.kind = "raise" THEN v
                 ELSE IF has_key(response, "result") THEN Returned(response.d["result"])
                 ELSE Raise(Raised("KeyError"))

\* Client._call_batch, lines 124-126: the last response listed for each id.
ResponseById(responses) ==
    LET idx == 1..Len(responses)
        keys == {DictGet(responses[i], "id") : i \in idx}
        last(k) == CHOOSE i \in idx : /\ DictGet(responses[i], "id") = k
                                      /\ \A j \in idx : DictGet(responses[j], "id") = k => j <= i
    IN  [k \in keys |-> responses[last(k)]]

\* What stays on record of the requests rs of a batch after its exchange.
Issued(rs) == [i \in 1..Len(rs) |-> [notify |-> rs[i].notify]]

\* The generator once its frame has ended: what it yielded stays on record.
Done(g) == [NoGen EXCEPT !.state = "done", !.ids = g.ids, !.text = g.text,
                         !.opened = g.opened, !.yielded = g.yielded,
                         !.issued = g.issued]

\* The loop of _call_batch written as an iterator that goes on to the next id
\* after it has raised the ProtocolError of one.
GenLoopAfterError(g) ==
    IF g.pos > Len(g.ids)
    THEN /\ gen' = Done(g)
         /\ outcome' = Raise(Raised("StopIteration"))
    ELSE LET request_id == g.ids[g.pos]
             response == IF request_id \in DOMAIN g.byId THEN g.byId[request_id] ELSE PyNone
             v == validate_response(response)
         IN  IF v.kind = "raise"
             THEN /\ gen' = IF v.exc.exc = "ProtocolError"
                            THEN [g EXCEPT !.state = "suspended", !.pos = @ + 1]
                            ELSE Done(g)
                  /\ outcome' = v
             ELSE IF ~has_key(response, "result")
             THEN /\ gen' = Done(g)
                  /\ outcome' = Raise(Raised("KeyError"))
             ELSE /\ gen' = [g EXCEPT !.state = "suspended", !.pos = @ + 1,
                                      !.yielded = Append(@, response.d["result"])]
                  /\ outcome' = Returned(response.d["result"])

\* The loop of _call_batch run over reversed(ids).
GenLoopReversed(g) ==
    IF g.pos > Len(g.ids)
    THEN /\ gen' = Done(g)
         /\ outcome' = Raise(Raised("StopIteration"))
    ELSE LET request_id == g.ids[Len(g.ids) + 1 - g.pos]
             response == IF request_id \in DOMAIN g.byId THEN g.byId[request_id] ELSE PyNone
             v == validate_response(response)
         IN  IF v.kind = "raise"
             THEN /\ gen' = Done(g)
                  /\ outcome' = v
             ELSE IF ~has_key(response, "result")
             THEN /\ gen' = Done(g)
                  /\ outcome' = Raise(Raised("KeyError"))
             ELSE /\ gen' = [g EXCEPT !.state = "suspended", !.pos = @ + 1,
                                      !.yielded = Append(@, response.d["result"])]
                  /\ outcome' = Returned(response.d["result"])

\* Client._call_batch, lines 127-130: one turn of the loop over the call ids.
GenLoop(g) ==
    IF g.pos > Len(g.ids)
    THEN /\ gen' = Done(g)
         /\ outcome' = Raise(Raised("StopIteration"))
    ELSE LET request_id == g.ids[g.pos]
             response == IF request_id \in DOMAIN g.byId THEN g.byId[request_id] ELSE PyNone
             v == validate_response(response)
         IN  IF v.kind = "raise"
             THEN /\ gen' = Done(g)
                  /\ outcome' = v
             ELSE IF ~has_key(response, "result")
             THEN /\ gen' = Done(g)
                  /\ outcome' = Raise(Raised("KeyError"))
             ELSE /\ gen' = [g EXCEPT !.state = "suspended", !.pos = @ + 1,
                                      !.yielded = Append(@, response.d["result"])]
                  /\ outcome' = Returned(response.d["result"])

\* _call_batch without "if not responses: raise StopIteration".
BatchResultNoEmptyTest(response_text) ==
    LET parsed == _parse_response(response_text)
        responses == parsed.val
        g == [gen EXCEPT !.opened = io'.opened, !.text = response_text,
                         !.issued = Issued(@)]
    IN  IF parsed.kind = "raise"
        THEN /\ gen' = Done(g)
             /\ outcome' = parsed
        ELSE IF responses.t # "list"
        THEN /\ gen' = Done(g)
             /\ outcome' = Raise(Raised("AssertionError"))
        ELSE IF \E i \in 1..Len(responses.l) : ~IsDict(responses.l[i])
        THEN /\ gen' = Done(g)
             /\ outcome' = Raise(Raised("AttributeError"))
        ELSE GenLoop([g EXCEPT !.byId = ResponseById(responses.l), !.pos = 1])

\* Client._call_batch, lines 119-130, run by the first next() after the exchange.
BatchResult(response_text) ==
    LET parsed == _parse_response(response_text)
        responses == parsed.val
        g == [gen EXCEPT !.opened = io'.opened, !.text = response_text,
                         !.issued = Issued(@)]
    IN  IF parsed.kind = "raise"
        THEN /\ gen' = Done(g)
             /\ outcome' = parsed
        ELSE IF ~Truthy(responses)
        THEN /\ gen' = Done(g)
             /\ outcome' = Raise(Raised("StopIteration"))
        ELSE IF responses.t # "list"
        THEN /\ gen' = Done(g)
             /\ outcome' = Raise(Raised("AssertionError"))
        ELSE IF \E i \in 1..Len(responses.l) : ~IsDict(responses.l[i])
        THEN /\ gen' = Done(g)
             /\ outcome' = Raise(Raised("AttributeError"))
        ELSE GenLoop([g EXCEPT !.byId = ResponseById(responses.l), !.pos = 1])

\* ------------------------------------------------------------ Call Session
\* Client.__call__, lines 82-83, after _call_single has returned or raised.
SingleDone(result) ==
    /\ outcome' = result
    /\ IF result.kind = "return"
       THEN requests' = [requests EXCEPT ![frame.session] = <<>>]
       ELSE UNCHANGED requests
    /\ UNCHANGED gen

\* Client.__call__ handing only requests[0] to _call_batch as well.
CallFirstOnly(s, rs) ==
    IF Len(rs) = 0
    THEN /\ outcome' = Raise(Raised("AssertionError"))
         /\ requests' = [requests EXCEPT ![s] = rs]
         /\ frame' = NoFrame
         /\ gen' = NoGen
         /\ UNCHANGED pc
    ELSE LET reqs == [i \in 1..Len(rs) |-> _request(rs[i])]
         IN  IF ~_is_batch(s)
             THEN /\ frame' = [NoFrame EXCEPT !.mode = "single", !.session = s,
                                  !.request = reqs[1], !.message = dumps(reqs[1]),
                                  !.notify = ~has_key(reqs[1], "id")]
                  /\ pc' = "connect"
                  /\ outcome' = Pending
                  /\ requests' = [requests EXCEPT ![s] = rs]
                  /\ gen' = NoGen
             ELSE /\ gen' = [NoGen EXCEPT !.state = "created", !.requests = <<reqs[1]>>,
                                          !.issued = rs]
                  /\ requests' = [requests EXCEPT ![s] = <<>>]
                  /\ outcome' = Returned(GeneratorRef)
                  /\ frame' = NoFrame
                  /\ UNCHANGED pc

\* Client.__call__ on session s, its builders being rs.
Call(s, rs) ==
    IF Len(rs) = 0
    THEN /\ outcome' = Raise(Raised("AssertionError"))
         /\ requests' = [requests EXCEPT ![s] = rs]
         /\ frame' = NoFrame
         /\ gen' = NoGen
         /\ UNCHANGED pc
    ELSE LET reqs == [i \in 1..Len(rs) |-> _request(rs[i])]
         IN  IF ~_is_batch(s)
             THEN \* _call_single, lines 89-94
                  /\ frame' = [NoFrame EXCEPT !.mode = "single", !.session = s,
                                  !.request = reqs[1], !.message = dumps(reqs[1]),
                                  !.notify = ~has_key(reqs[1], "id")]
                  /\ pc' = "connect"
                  /\ outcome' = Pending
                  /\ requests' = [requests EXCEPT ![s] = rs]
                  /\ gen' = NoGen
             ELSE \* _call_batch is a generator function: calling it runs none of it
                  /\ gen' = [NoGen EXCEPT !.state = "created", !.requests = reqs,
                                          !.issued = rs]
                  /\ requests' = [requests EXCEPT ![s] = <<>>]
                  /\ outcome' = Returned(GeneratorRef)
                  /\ frame' = NoFrame
                  /\ UNCHANGED pc

\* The caller triggers a session: s()
ClientCall(s) ==
    /\ Ready /\ s \in made
    /\ op' = [NoOp EXCEPT !.name = "trigger", !.session = s, !.pending = Len(requests[s])]
    /\ io' = NoIo
    /\ srv' = <<>>
    /\ Call(s, requests[s])
    /\ UNCHANGED made

\* ClientRequest.__call__ without its test of the arguments: named arguments
\* win over positional ones.
RequestCallUnchecked(s, i, a) ==
    /\ Ready /\ i \in 1..Len(requests[s])
    /\ io' = NoIo
    /\ srv' = <<>>
    /\ op' = [NoOp EXCEPT !.name = "invoke", !.session = s, !.obj = i,
                          !.notify = requests[s][i].notify,
                          !.both = (Len(a.args) > 0 /\ Truthy(a.kwargs)),
                          !.pending = Len(requests[s])]
    /\ LET params == IF Truthy(a.kwargs) THEN a.kwargs ELSE PyList(a.args)
           rs == [requests[s] EXCEPT ![i].params = params]
       IN  IF ~_is_batch(s)
           THEN Call(s, rs)
           ELSE /\ requests' = [requests EXCEPT ![s] = rs]
                /\ outcome' = Returned(PyNone)
                /\ frame' = NoFrame
                /\ gen' = NoGen
                /\ UNCHANGED pc
    /\ UNCHANGED made

\* ClientRequest.__call__ and _call_server on the i-th pending request of s
RequestCall(s, i, a) ==
    /\ Ready /\ i \in 1..Len(requests[s])
    /\ io' = NoIo
    /\ srv' = <<>>
    /\ op' = [NoOp EXCEPT !.name = "invoke", !.session = s, !.obj = i,
                          !.notify = requests[s][i].notify,
                          !.both = (Len(a.args) > 0 /\ Truthy(a.kwargs)),
                          !.pending = Len(requests[s])]
    /\ IF ~(Len(a.args) = 0 \/ ~Truthy(a.kwargs))
       THEN /\ outcome' = Raise(Raised("ValueError"))
            /\ frame' = NoFrame
            /\ gen' = NoGen
            /\ UNCHANGED <<requests, pc>>
       ELSE LET params == IF Truthy(a.kwargs) THEN a.kwargs ELSE PyList(a.args)
                rs == [requests[s] EXCEPT ![i].params = params]
            IN  IF ~_is_batch(s)
                THEN Call(s, rs)
                ELSE /\ requests' = [requests EXCEPT ![s] = rs]
                     /\ outcome' = Returned(PyNone)
                     /\ frame' = NoFrame
                     /\ gen' = NoGen
                     /\ UNCHANGED pc
    /\ UNCHANGED made

\* next() on the generator of the last batch trigger.
GenNext ==
    /\ Ready
    /\ gen.state \in {"created", "suspended", "done", "exhausted"}
    /\ op' = [NoOp EXCEPT !.name = "next", !.session = "batch"]
    /\ io' = NoIo
    /\ srv' = <<>>
    /\ CASE gen.state = "created" ->
              \* _call_batch, lines 107-118
              LET calls == SelectSeq(gen.requests, LAMBDA r : has_key(r, "id"))
                  ids == [i \in 1..Len(calls) |-> calls[i].d["id"]]
              IN  /\ gen' = [gen EXCEPT !.state = "running", !.ids = ids,
                                        !.requests = <<>>]
                  /\ frame' = [NoFrame EXCEPT !.mode = "batch", !.session = "batch",
                                  !.ids = ids, !.message = dumps(PyList(gen.requests)),
                                  !.notify = (Len(ids) = 0)]
                  /\ pc' = "connect"
                  /\ outcome' = Pending
         [] gen.state = "suspended" ->
              /\ GenLoop(gen)
              /\ frame' = NoFrame
              /\ UNCHANGED pc
         [] gen.state \in {"done", "exhausted"} ->
              /\ outcome' = Raise(Raised("StopIteration"))
              /\ gen' = [gen EXCEPT !.state = "exhausted"]
              /\ frame' = NoFrame
              /\ UNCHANGED pc
    /\ UNCHANGED <<made, requests>>

\* ---------------------------------------------------------------- the peer
\* What a server may answer.  The client never looks into a result, so one
\* result per call id is enough to tell the calls of a batch apart.
V2 == PyScalar("2.0")
Result(id, x) == PyDict([jsonrpc |-> V2, id |-> id, result |-> x])
ErrorResponse(id, e) == PyDict([jsonrpc |-> V2, id |-> id, error |-> e])
ErrorObject == PyDict([code |-> PyScalar("-32601"), message |-> PyScalar("'Method not found'")])
ErrorObjectData ==
    PyDict([code |-> PyScalar("-32602"), message |-> PyScalar("'Invalid params'"),
            data |-> PyScalar("'detail'")])

FalsyResults == {PyScalar("0"), PyScalar("false"), PyNone, PyScalar("''"),
                 PyList(<<>>), EmptyDict}
ResultValues == FalsyResults \cup {TheValue}
ResultList == <<PyScalar("0"), TheValue, PyNone, EmptyDict, PyScalar("5"),
                PyScalar("false"), PyList(<<>>)>>
ResultOf(id) == ResultList[((id.i - 1) % Len(ResultList)) + 1]

\* text followed by white space up to one full buffer.
Pad(text) == text \o [i \in 1..(Buffer - Len(text)) |-> Space]

\* Decodable replies to a single call that are no valid response.
Malformed(id) ==
    { EmptyDict, PyList(<<>>), PyScalar("0"), PyScalar("5"),
      PyList(<<Result(id, TheValue)>>),
      PyDict([id |-> id, result |-> TheValue]),
      PyDict([jsonrpc |-> V2, result |-> TheValue]),
      PyDict([jsonrpc |-> V2, id |-> id]),
      PyDict([jsonrpc |-> V2, id |-> id, result |-> TheValue, error |-> ErrorObject]),
      ErrorResponse(id, PyNone) }

SingleReplies(id) ==
    {dumps(Result(id, x)) : x \in ResultValues}
    \cup {dumps(ErrorResponse(id, e)) : e \in {ErrorObject, ErrorObjectData}}
    \cup {dumps(v) : v \in Malformed(id)}
    \cup {Pad(dumps(Result(id, TheValue))), <<Junk>>}

\* The orders in which the elements of S can be listed.
Orders(S) == {f \in [1..Cardinality(S) -> S] : \A i, j \in 1..Cardinality(S) : f[i] = f[j] => i = j}

\* One reply array per choice of: the call id answered differently from a plain
\* result (if any), how it is answered, and the order of the elements.
BatchArrays(ids) ==
    LET idSet == {ids[i] : i \in 1..Len(ids)}
        plain(S) == {Result(id, ResultOf(id)) : id \in S}
        odd(id) == {ErrorResponse(id, ErrorObject), ErrorResponse(id, ErrorObjectData),
                    PyDict([id |-> id, result |-> ResultOf(id)])}
        contents == {plain(idSet)}
                    \cup {plain(idSet \ {id}) : id \in idSet}
                    \cup UNION {{plain(idSet \ {id}) \cup {r} : r \in odd(id)} : id \in idSet}
    IN  UNION {Orders(c) : c \in contents}

BatchReplies(ids) ==
    {dumps(PyList(a)) : a \in BatchArrays(ids)}
    \cup {<<Junk>>, dumps(PyList(<<>>)), dumps(ErrorResponse(PyNone, ErrorObjectData)),
          dumps(Result(PyNone, TheValue)), dumps(PyList(<<PyScalar("5")>>))}

Replies ==
    IF frame.mode = "single" THEN SingleReplies(frame.request.d["id"])
    ELSE BatchReplies(frame.ids)

\* The sizes of the chunk one recv may return when n bytes of the reply are
\* left: as much as the buffer takes, or, on the first read, a single byte (the
\* stream may deliver a reply in pieces).
ChunkSizes(n) == {IF n < Buffer THEN n ELSE Buffer} \cup (IF io.reads = 0 THEN {1} ELSE {})

\* ---------------------------------------------------------------- Transport
\* What is left of the activation once _send_and_receive has been left.
Left(f, sock, end) ==
    [NoFrame EXCEPT !.mode = f.mode, !.session = f.session, !.notify = f.notify,
                    !.response = f.response, !.sock = sock, !.end = end]

\* An exception leaves _send_and_receive and every caller up to the operation.
Abort(e, sock) ==
    /\ pc' = "idle"
    /\ srv' = <<>>
    /\ frame' = Left(frame, sock, "error")
    /\ outcome' = Raise(e)
    /\ gen' = IF frame.mode = "batch"
              THEN Done([gen EXCEPT !.opened = io'.opened, !.issued = Issued(@)])
              ELSE gen
    /\ UNCHANGED requests

\* sock.close(), then _send_and_receive returns response_text and its caller
\* goes on to its end.
Finish(response_text, end) ==
    /\ pc' = "idle"
    /\ srv' = <<>>
    /\ frame' = Left([frame EXCEPT !.response = response_text], "closed", end)
    /\ IF frame.mode = "single"
       THEN SingleDone(SingleResult(response_text))
       ELSE /\ BatchResult(response_text)
            /\ UNCHANGED requests

\* _send_and_receive, lines 141-143
Connect ==
    /\ pc = "connect"
    /\ io' = [io EXCEPT !.opened = @ + 1]
    /\ \/ /\ frame' = [frame EXCEPT !.sock = "connected"]
          /\ pc' = "send"
          /\ UNCHANGED <<requests, gen, srv, outcome>>
       \/ Abort(Raised("socket.error"), "created")
    /\ UNCHANGED <<made, op>>

\* _send_and_receive, lines 144-149
Send ==
    /\ pc = "send"
    /\ \/ IF frame.notify
          THEN /\ io' = [io EXCEPT !.writes = @ + 1, !.closed = @ + 1]
               /\ Finish(<<>>, "notify")
          ELSE /\ io' = [io EXCEPT !.writes = @ + 1]
               /\ pc' = "recv"
               /\ UNCHANGED <<requests, gen, frame, srv, outcome>>
       \/ /\ io' = io
          /\ Abort(Raised("socket.error"), frame.sock)
    /\ UNCHANGED <<made, op>>

\* _send_and_receive, lines 151-161: one turn of the read loop.  The reply shows
\* with the first read; later reads take what the earlier ones left.
Recv ==
    /\ pc = "recv"
    /\ \/ \* data arrives
          \E reply \in (IF io.reads = 0 THEN Replies ELSE {srv}) :
          \E n \in ChunkSizes(Len(reply)) :
             /\ Len(reply) > 0
             /\ LET data == SubSeq(reply, 1, n)
                    response == frame.response \o data
                IN  IF Len(response) < Buffer
                    THEN /\ io' = [io EXCEPT !.reads = @ + 1, !.closed = @ + 1]
                         /\ Finish(response, "short")
                    ELSE /\ io' = [io EXCEPT !.reads = @ + 1]
                         /\ frame' = [frame EXCEPT !.response = response, !.last = Len(data)]
                         /\ srv' = SubSeq(reply, n + 1, Len(reply))
                         /\ UNCHANGED <<requests, gen, pc, outcome>>
       \/ \* socket.timeout
          /\ io' = [io EXCEPT !.reads = @ + 1, !.closed = @ + 1]
          /\ Finish(frame.response, "timeout")
       \/ \* the peer has sent all it had and closed: recv returns ''
          /\ srv = <<>>
          /\ io' = [io EXCEPT !.reads = @ + 1, !.closed = @ + 1]
          /\ Finish(frame.response, "eof")
       \/ \* any other socket error
          /\ io' = [io EXCEPT !.reads = @ + 1]
          /\ Abort(Raised("socket.error"), frame.sock)
    /\ UNCHANGED <<made, op>>

\* The operation is over: the caller takes its outcome (a value or an
\* exception) and goes on to its next statement.  It keeps the sessions and
\* the generator it holds.
Continue ==
    /\ pc = "idle" /\ op # NoOp
    /\ op' = NoOp
    /\ io' = NoIo
    /\ frame' = NoFrame
    /\ srv' = <<>>
    /\ outcome' = Returned(PyNone)
    /\ UNCHANGED <<made, requests, gen, pc>>

Next == \/ \E s \in Sessions, key \in ClientKeys : ClientGetAttr(s, key)
        \/ \E s \in Sessions : _notify(s)
        \/ \E s \in Sessions : _batch(s)
        \/ \E s \in Sessions, i \in 1..MaxReqs, key \in RequestKeys : RequestGetAttr(s, i, key)
        \/ \E s \in Sessions, i \in 1..MaxReqs, a \in ArgChoices : RequestCall(s, i, a)
        \/ \E s \in Sessions : ClientCall(s)
        \/ GenNext
        \/ Connect
        \/ Send
        \/ Recv
        \/ Continue

Spec == Init /\ [][Next]_vars

\* ------------------------------------------------------------------ claims
\* What json.loads makes of the text _send_and_receive returned.
Received == loads(frame.response)

\* A response object {jsonrpc, id, result}.
ConformantResult(v) == IsDict(v) /\ DOMAIN v.d = {"jsonrpc", "id", "result"}

\* A response that carries an error object with its code and message.
CarriesError(v) ==
    /\ IsDict(v) /\ has_key(v, "error")
    /\ IsDict(v.d["error"])
    /\ has_key(v.d["error"], "code") /\ has_key(v.d["error"], "message")

\* The ProtocolError that repeats the error object of v.
ErrorOf(v) ==
    LET e == v.d["error"]
    IN  ProtocolError(e.d["code"], e.d["message"], DictGet(e, "data"))

\* The operation was the invocation of a request on a non-batch session, it
\* started an exchange for a call, and the exchange is over.
SingleCallOver ==
    /\ pc = "idle" /\ op.name = "invoke" /\ ~_is_batch(op.session)
    /\ frame.mode = "single" /\ ~frame.notify

\* C1: a single call on a session with no other pending request whose reply is
\* a conformant response object {jsonrpc, id, result: X} returns exactly X, the
\* false values 0, false, null, "", [] and {} included.
C1_SingleCallReturnsResult ==
    (/\ SingleCallOver /\ op.pending = 1 /\ frame.sock = "closed"
     /\ Received.ok /\ ConformantResult(Received.val))
    => outcome = Returned(Received.val.d["result"])

\* C1's case: such a call has returned the empty object the server sent.
C1_Witness ==
    /\ SingleCallOver /\ op.pending = 1 /\ frame.sock = "closed"
    /\ Received.ok /\ ConformantResult(Received.val)
    /\ Received.val.d["result"] = EmptyDict
    /\ outcome = Returned(EmptyDict)

\* The reply array text answers each of ids with one conformant result
\* response and holds nothing else.
ConformantBatch(text, ids) ==
    LET r == loads(text)
    IN  /\ Len(ids) > 0
        /\ r.ok /\ r.val.t = "list"
        /\ Len(r.val.l) = Len(ids)
        /\ \A i \in 1..Len(r.val.l) : ConformantResult(r.val.l[i])
        /\ \A k \in 1..Len(ids) : \E i \in 1..Len(r.val.l) : r.val.l[i].d["id"] = ids[k]

\* The result the array responses gives for id.
ResultFor(responses, id) ==
    responses[CHOOSE i \in 1..Len(responses) : responses[i].d["id"] = id].d["result"]

\* C2: when the reply array of a batch holds one conformant result response per
\* dispatched call id, in any order, consuming the returned sequence yields the
\* results in the order the calls were issued, one per call and none for a
\* notification, and then ends.
C2_BatchYieldsInIssuanceOrder ==
    (/\ pc = "idle" /\ op.name = "next"
     /\ gen.state \in {"suspended", "done"} /\ ConformantBatch(gen.text, gen.ids))
    => LET responses == loads(gen.text).val.l
           expected == [k \in 1..Len(gen.ids) |-> ResultFor(responses, gen.ids[k])]
           n == Len(gen.yielded)
       IN  /\ n <= Len(expected)
           /\ gen.yielded = SubSeq(expected, 1, n)
           /\ gen.state = "suspended" => n >= 1 /\ outcome = Returned(expected[n])
           /\ gen.state = "done" => n = Len(expected) /\ outcome = Raise(Raised("StopIteration"))

\* C2's case: a batch of two calls answered in the opposite order has been
\* consumed to its end.
C2_Witness ==
    /\ pc = "idle" /\ op.name = "next"
    /\ gen.state = "done" /\ ConformantBatch(gen.text, gen.ids)
    /\ Len(gen.ids) = 2 /\ Len(gen.yielded) = 2
    /\ loads(gen.text).val.l[1].d["id"] = gen.ids[2]

\* C3: on a non-batch session, after any earlier operations, invoking a request
\* transmits exactly one request object, that of the request being invoked (the
\* bytes written are its rendering).
C3_InvokeSendsInvokedRequest ==
    (op.name = "invoke" /\ ~_is_batch(op.session) /\ pc \in {"send", "recv"})
    => /\ frame.message = dumps(_request(requests[op.session][op.obj]))
       /\ io.writes <= 1

\* C4: after every trigger of a session (Client.__call__ entered with a
\* pending request), whether the exchange returned a value or failed, the
\* session's pending list is empty.
C4_PendingClearedAfterTrigger ==
    (/\ pc = "idle"
     /\ \/ op.name = "trigger" /\ op.pending > 0
        \/ op.name = "invoke" /\ frame.mode = "single")
    => requests[op.session] = <<>>

\* C5: invoking a notification request on a non-batch session never performs a
\* read, and once its message is written and the socket closed it returns None,
\* whatever was done on the session before.
C5_NotificationNeverReads ==
    (op.name = "invoke" /\ ~_is_batch(op.session) /\ op.notify)
    => /\ pc # "recv"
       /\ io.reads = 0
       /\ (pc = "idle" /\ frame.sock = "closed") => outcome = Returned(PyNone)

\* C6: whenever _send_and_receive has been left, on every exit path (a failing
\* connect, write or read included), each socket it created has been closed
\* exactly once.
C6_SocketClosedOnEveryExit ==
    /\ io.closed <= io.opened
    /\ pc = "idle" => io.closed = io.opened

\* C7: when the call that triggers an exchange (invoking a request on a
\* non-batch session, or triggering a session) returns to its caller, the
\* exchange has been carried out to its end: connect, write, read, close.
C7_ExchangeOverWhenTriggerReturns ==
    (/\ pc = "idle" /\ outcome.kind = "return"
     /\ \/ op.name = "trigger"
        \/ op.name = "invoke" /\ ~_is_batch(op.session))
    => io.opened = 1 /\ io.closed = 1

\* C8: a single call whose read loop is ended by a read timeout fails with the
\* parse-error ProtocolError (code -32700) and returns no value, the timeout
\* before any byte was received included.
C8_TimeoutIsParseError ==
    (SingleCallOver /\ frame.end = "timeout")
    => outcome = Raise(ProtocolError(ParseErrorCode, PyNone, PyNone))

\* A valid response: an object with jsonrpc, id, and exactly one of result and
\* error.
ValidResponse(v) ==
    /\ IsDict(v)
    /\ has_key(v, "jsonrpc") /\ has_key(v, "id")
    /\ has_key(v, "result") # has_key(v, "error")

\* C9: a single call whose non-empty reply decodes but is no valid response
\* fails with the generic invalid-response failure, which is no ProtocolError,
\* and returns no value.
C9_MalformedReplyIsInvalidResponse ==
    (/\ SingleCallOver /\ frame.sock = "closed"
     /\ frame.response # <<>> /\ Received.ok /\ ~ValidResponse(Received.val))
    => outcome = Raise(InvalidResponse)

\* The response a batch reply gives for the call id its consumption stopped at,
\* or None.
StoppedAt ==
    LET r == loads(gen.text)
        p == Len(gen.yielded) + 1
    IN  IF /\ r.ok /\ r.val.t = "list" /\ p <= Len(gen.ids)
           /\ \A i \in 1..Len(r.val.l) : IsDict(r.val.l[i])
           /\ gen.ids[p] \in DOMAIN ResponseById(r.val.l)
        THEN ResponseById(r.val.l)[gen.ids[p]]
        ELSE PyNone

\* C10: whenever a response carries an error object, as the reply to a single
\* call or as the element of a batch reply that the consumption has come to,
\* the caller receives a ProtocolError whose code, message and data are those
\* of the error object.
C10_ErrorObjectBecomesProtocolError ==
    /\ (SingleCallOver /\ frame.sock = "closed" /\ Received.ok /\ CarriesError(Received.val))
       => outcome = Raise(ErrorOf(Received.val))
    /\ (pc = "idle" /\ op.name = "next" /\ gen.state = "done" /\ CarriesError(StoppedAt))
       => outcome = Raise(ErrorOf(StoppedAt))
\* C11: every usage error is raised before any socket is opened: accessing a
\* name that starts with '_' on a session or on a request, invoking a request
\* with both positional and named arguments (batch or not), and triggering a
\* session with no pending request each fail at once, with no connection
\* opened and nothing written.
C11_UsageErrorsBeforeAnyIO ==
    /\ (op.name \in {"getattr", "request.getattr"} /\ outcome.kind = "raise")
       => pc = "idle" /\ outcome = Raise(Raised("AttributeError")) /\ io = NoIo
    /\ (op.name = "invoke" /\ op.both)
       => pc = "idle" /\ outcome = Raise(Raised("ValueError")) /\ io = NoIo
    /\ (op.name = "trigger" /\ op.pending = 0)
       => pc = "idle" /\ outcome = Raise(Raised("AssertionError")) /\ io = NoIo

\* C11's case: a request of a non-batch session has been invoked with both
\* kinds of arguments and the invocation has raised ValueError.
C11_Witness ==
    /\ op.name = "invoke" /\ op.both /\ ~_is_batch(op.session)
    /\ outcome = Raise(Raised("ValueError")) /\ io = NoIo
\* The requests that were pending when the batch was triggered are all
\* notifications.
OnlyNotifications ==
    /\ Len(gen.issued) > 0
    /\ \A i \in 1..Len(gen.issued) : gen.issued[i].notify

\* C12: consuming the sequence of a triggered batch whose pending requests
\* were all notifications performs no read on the connection and, once the
\* message is written and the socket closed, yields nothing and ends.
C12_NotificationBatchIsEmpty ==
    (op.name = "next" /\ OnlyNotifications)
    => /\ pc # "recv"
       /\ io.reads = 0
       /\ gen.yielded = <<>>
       /\ (pc = "idle" /\ frame.sock = "closed")
          => outcome = Raise(Raised("StopIteration")) /\ io.writes = 1

\* C12's case: a batch of two notifications has been sent and its sequence
\* has ended.
C12_Witness ==
    /\ op.name = "next" /\ OnlyNotifications /\ Len(gen.issued) = 2
    /\ pc = "idle" /\ frame.sock = "closed" /\ io.writes = 1 /\ io.reads = 0
    /\ outcome = Raise(Raised("StopIteration"))

\* C13: consuming the sequence of a batch triggered with n >= 1 pending
\* requests opens one connection and writes one message, the array of all n
\* request objects in the order they were accumulated; every later result is
\* produced without I/O.
C13_BatchIsOneRoundTrip ==
    /\ gen.opened <= 1
    /\ (op.name = "next" /\ pc \in {"send", "recv"})
       => /\ frame.message =
               dumps(PyList([i \in 1..Len(gen.issued) |-> _request(gen.issued[i])]))
          /\ io.opened = 1 /\ io.writes <= 1
    /\ (op.name = "next" /\ pc = "idle" /\ frame.sock = "closed")
       => io.opened = 1 /\ io.writes = 1 /\ gen.opened = 1
    /\ (op.name = "next" /\ pc = "idle" /\ frame.mode = "none")
       => io = NoIo /\ gen.opened = 1

\* C13's case: a batch of two requests has been consumed to its end, the
\* last result having been produced by a resumption of the generator.
C13_Witness ==
    /\ op.name = "next" /\ pc = "idle" /\ frame.mode = "none"
    /\ gen.state = "done" /\ outcome = Raise(Raised("StopIteration"))
    /\ Len(gen.issued) = 2 /\ Len(gen.yielded) >= 1 /\ gen.opened = 1
\* C14: in the read loop of a non-notification exchange every read that
\* returns a non-empty chunk shorter than the buffer size ends the loop at
\* once, also after earlier reads that returned full chunks: the loop goes on
\* to a further read only after a chunk of the full buffer size.
C14_ShortChunkEndsTheLoop ==
    (pc = "recv" /\ io.reads > 0) => frame.last = Buffer
\* The request objects of the message in flight.
InFlight ==
    LET m == loads(frame.message).val
    IN  IF m.t = "list" THEN m.l ELSE <<m>>

\* C15: a rendered request object carries an id if and only if the request was
\* created as a call and not through _notify; the id is the identifier the
\* request was given when it was created; and rendering a pending request
\* again gives the object that was rendered for transmission, the rendering
\* having left the request as it was.  (The pending lists are looked at
\* between operations: the lists an operation leaves are those the caller
\* finds when it goes on.)
C15_IdIffCall ==
    /\ Ready
       => \A s \in Sessions : \A i \in 1..Len(requests[s]) :
             LET r == requests[s][i]
                 rendered == _request(r)
             IN  /\ has_key(rendered, "id") <=> ~r.notify
                 /\ ~r.notify => rendered.d["id"] = [t |-> "id", s |-> s, i |-> i]
                 /\ r.notify <=> r.req_id = PyNone
    /\ (pc \in {"connect", "send", "recv"})
       => /\ \A i \in 1..Len(InFlight) :
                has_key(InFlight[i], "id") => InFlight[i].d["id"] # PyNone
          /\ frame.mode = "single"
             => /\ frame.request = _request(requests[frame.session][1])
                /\ frame.message = dumps(frame.request)
                /\ frame.notify <=> requests[frame.session][1].notify
          /\ frame.mode = "batch"
             => /\ Len(InFlight) = Len(gen.issued)
                /\ \A i \in 1..Len(InFlight) :
                      /\ InFlight[i] = _request(gen.issued[i])
                      /\ has_key(InFlight[i], "id") <=> ~gen.issued[i].notify

\* C15's case: a batch holding a call and a notification is in flight.
C15_Witness ==
    /\ pc = "send" /\ frame.mode = "batch" /\ Len(gen.issued) = 2
    /\ ~gen.issued[1].notify /\ gen.issued[2].notify
    /\ has_key(InFlight[1], "id") /\ ~has_key(InFlight[2], "id")
\* C16: on a batch session (a session that _batch has made) no attribute
\* access and no invocation of a request opens a connection or writes a byte;
\* an invocation records its parameters
\* and returns None; a new request goes to the end of the pending list, which
\* stays in the order of issuance; and I/O is performed for a batch session
\* only by the sequence that triggering it has returned.
C16_BatchDefersAllIO ==
    /\ (op.session = "batch" /\ op.name \in {"getattr", "_notify", "request.getattr", "invoke"})
       => /\ pc = "idle" /\ io = NoIo /\ frame = NoFrame
          /\ (op.name = "invoke" /\ ~op.both)
             => /\ outcome = Returned(PyNone)
                /\ Truthy(requests[op.session][op.obj].params)
                /\ Len(requests[op.session]) = op.pending
          /\ (op.name \in {"getattr", "_notify"} /\ outcome.kind = "return")
             => /\ outcome = Returned(RequestRef(op.session, Len(requests[op.session])))
                /\ requests[op.session][Len(requests[op.session])].params = PyNone
    /\ Ready
       => \A i \in 1..Len(requests["batch"]) :
             ~requests["batch"][i].notify => requests["batch"][i].req_id.i = i
    /\ (frame.mode = "batch" \/ (pc # "idle" /\ frame.session = "batch"))
       => op.name = "next" /\ gen.state \in {"running", "suspended", "done"}

\* C16's case: the second of two pending requests of a batch session has been
\* invoked.
C16_Witness ==
    /\ op.session = "batch" /\ op.name = "invoke" /\ op.obj = 2 /\ ~op.both
    /\ outcome = Returned(PyNone) /\ io = NoIo /\ pc = "idle"
    /\ Len(requests["batch"]) = 2 /\ Truthy(requests["batch"][2].params)
\* C17: for a batch with at least one call, when the reply is empty text
\* (nothing was received) or an empty array, consuming the sequence gives an
\* empty sequence and raises no failure.
C17_EmptyReplyIsEmptySequence ==
    (/\ op.name = "next" /\ pc = "idle"
     /\ frame.mode = "batch" /\ frame.sock = "closed" /\ Len(gen.ids) > 0
     /\ \/ frame.response = <<>>
        \/ Received.ok /\ Received.val = PyList(<<>>))
    => /\ outcome = Raise(Raised("StopIteration"))
       /\ gen.state = "done" /\ gen.yielded = <<>>

\* C17's case: a batch of two calls has been answered with an empty array.
C17_Witness ==
    /\ op.name = "next" /\ pc = "idle"
    /\ frame.mode = "batch" /\ frame.sock = "closed" /\ Len(gen.ids) = 2
    /\ frame.response # <<>> /\ Received.ok /\ Received.val = PyList(<<>>)
    /\ outcome = Raise(Raised("StopIteration")) /\ gen.yielded = <<>>
\* The reply of the batch is a non-empty array of objects that has no response
\* for the call id its consumption stopped at.
StoppedAtMissing ==
    LET r == loads(gen.text)
        p == Len(gen.yielded) + 1
    IN  /\ r.ok /\ r.val.t = "list" /\ Len(r.val.l) > 0
        /\ \A i \in 1..Len(r.val.l) : IsDict(r.val.l[i])
        /\ p <= Len(gen.ids)
        /\ gen.ids[p] \notin DOMAIN ResponseById(r.val.l)

\* C18: when the non-empty reply array of a batch holds no response for some
\* dispatched call id, consuming the sequence fails at that call's position
\* with the generic invalid-response failure, the one a single response
\* lacking required fields produces, and yields no result for that call.
C18_MissingResponseIsInvalidResponse ==
    (pc = "idle" /\ op.name = "next" /\ gen.state = "done" /\ StoppedAtMissing)
    => outcome = Raise(InvalidResponse)
\* C19: a batch session and the client it was obtained from have independent
\* pending lists: no step of an operation on the batch session (accumulating,
\* triggering, consuming) changes the parent's list, no step of an operation
\* on the parent changes the batch session's list, and _batch leaves the
\* parent's list as it is and gives a session whose list is empty.
C19_SessionsAreIndependent ==
    [][/\ (op'.session = "batch" /\ op'.name # "_batch")
          => requests'["conn"] = requests["conn"]
       /\ (op'.session = "conn" /\ op'.name # "_batch")
          => requests'["batch"] = requests["batch"]
       /\ op'.name = "_batch"
          => requests'["conn"] = requests["conn"] /\ requests'["batch"] = <<>>]_vars

\* C19's case: a request has been invoked on the batch session while the
\* parent has a pending request of its own.
C19_Witness ==
    /\ op.session = "batch" /\ op.name = "invoke" /\ outcome = Returned(PyNone)
    /\ Len(requests["conn"]) = 1 /\ Len(requests["batch"]) = 1
\* A response object {jsonrpc, id, error} with an error object.
ConformantError(v) == CarriesError(v) /\ DOMAIN v.d = {"jsonrpc", "id", "error"}

\* The responses of the reply array text by id, when it is an array of objects.
ById(text) ==
    LET r == loads(text)
    IN  IF /\ r.ok /\ r.val.t = "list"
           /\ \A i \in 1..Len(r.val.l) : IsDict(r.val.l[i])
        THEN ResponseById(r.val.l)
        ELSE [k \in {} |-> PyNone]

\* The places k in ids whose response carries an error object while the
\* responses of the places before k are conformant results: k, if there is one.
ErrorPlace(text, ids) ==
    {k \in 1..Len(ids) :
        /\ ids[k] \in DOMAIN ById(text) /\ ConformantError(ById(text)[ids[k]])
        /\ \A j \in 1..(k - 1) :
              ids[j] \in DOMAIN ById(text) /\ ConformantResult(ById(text)[ids[j]])}

\* C20: when the response for the k-th call of a batch carries an error object
\* and the responses for the calls before it are conformant results, the
\* consumer receives those k-1 results in order, then the ProtocolError with
\* the code and message of call k, and the sequence yields no result of a
\* later call: it has ended.
C20_ErrorEndsTheSequence ==
    (/\ pc = "idle" /\ op.name = "next"
     /\ gen.state \in {"suspended", "done", "exhausted"}
     /\ ErrorPlace(gen.text, gen.ids) # {})
    => LET k == CHOOSE x \in ErrorPlace(gen.text, gen.ids) : TRUE
           e == ById(gen.text)[gen.ids[k]].d["error"]
           expected == [j \in 1..(k - 1) |-> ById(gen.text)[gen.ids[j]].d["result"]]
           n == Len(gen.yielded)
       IN  /\ n <= k - 1
           /\ gen.yielded = SubSeq(expected, 1, n)
           /\ gen.state = "suspended" => n >= 1 /\ outcome = Returned(expected[n])
           /\ gen.state = "done"
              => /\ n = k - 1
                 /\ outcome.kind = "raise" /\ outcome.exc.exc = "ProtocolError"
                 /\ outcome.exc.code = e.d["code"]
                 /\ outcome.exc.message = e.d["message"]
           /\ gen.state = "exhausted"
              => n = k - 1 /\ outcome = Raise(Raised("StopIteration"))

\* C20's case: the first of two calls was answered with an error object, the
\* consumer has received the ProtocolError and has asked for more.
C20_Witness ==
    /\ pc = "idle" /\ op.name = "next" /\ gen.state = "exhausted"
    /\ Len(gen.ids) = 2 /\ ErrorPlace(gen.text, gen.ids) = {1}
    /\ gen.ids[2] \in DOMAIN ById(gen.text)
    /\ gen.yielded = <<>> /\ outcome = Raise(Raised("StopIteration"))
====
